---- MODULE Spec2Model ----
(***************************************************************************)
(* ChatService (backend/app/services/chat_service.py): the per-session     *)
(* message history and language store, and the start / process / reset /   *)
(* update-language operations that run on one asyncio event loop and       *)
(* suspend only at their two ModelClient calls.                            *)
(*                                                                         *)
(* Text is a sequence of characters; a long static text (persona prompt,   *)
(* apology, fallback question) is a one-character sequence whose single    *)
(* character stands for the whole non-blank text.                          *)
(*                                                                         *)
(* Two further programs of the repository have their own specifications:   *)
(* the flask prototype (src/app.py, SpecPrototype) and the lifecycle state *)
(* of the FastAPI application (backend/app/main.py, SpecLifecycle).        *)
(***************************************************************************)
EXTENDS Integers, Sequences, FiniteSets, TLC

\* ------------------------------------------------------------------ bounds
\* startConversation and processMessage calls admitted in one behaviour
\* (resetConversation and updateLanguage calls are not limited).
MaxTurns == 2

\* Longest JSON array (in entries) the model answers a recommendation
\* request with, and largest num_recommendations asked of the generator
\* (the static table has 5 entries per language).
MaxItems == 4
MaxCount == 6

\* Replies one bot of the prototype saves to its memory before requests on
\* its session stop being admitted (the topic switch needs 7 of them).
MaxExchanges == 8

\* Last reading of the clock in the model of the application lifecycle.
MaxTime == 4

\* --------------------------------------------------------------- constants
\* Default num_recommendations of _get_recommended_answers.
NumRecommendations == 3

Ids == {"s1"}
Tasks == {1, 2}

\* Language arguments a caller can pass; "none" is Python's None and "fr"
\* stands for any value outside the supported set.
LangArgs == {"en", "de", "fr", "none"}
SupportedLanguages == {"en", "de"}

\* User messages: empty, whitespace-only, and a non-blank one.
Messages == {<< >>, <<" ">>, <<" ", "a">>}

\* ------------------------------------------------------------------- text
RECURSIVE LStrip(_)
LStrip(s) ==
    IF s = << >> THEN s
    ELSE IF Head(s) = " " THEN LStrip(Tail(s)) ELSE s

RECURSIVE RStrip(_)
RStrip(s) ==
    IF s = << >> THEN s
    ELSE IF s[Len(s)] = " " THEN RStrip(SubSeq(s, 1, Len(s) - 1)) ELSE s

\* str.strip()
Strip(s) == RStrip(LStrip(s))

\* Python truthiness of a str
Truthy(s) == s # << >>

\* faulty variant: only the empty string counts as blank
IsBlankEmptyOnly(s) == ~Truthy(s)

\* `not content or not content.strip()`
IsBlank(s) == ~Truthy(s) \/ ~Truthy(Strip(s))

PersonaDe == <<"Sie sind Hans-Thomas Tillschneider">>
PersonaEn == <<"You are Hans-Thomas Tillschneider">>
ApologyDe == <<"Ich entschuldige mich">>
ApologyEn == <<"I apologize">>

\* faulty variant: the English persona whatever the language
SystemPromptEnglishOnly(language) == PersonaEn

\* the system_prompt chosen in _initialize_session
SystemPrompt(language) == IF language = "de" THEN PersonaDe ELSE PersonaEn

\* faulty variant: the English apology whatever the language
GetFallbackResponseEnglishOnly(language) == ApologyEn

GetFallbackResponse(language) == IF language = "de" THEN ApologyDe ELSE ApologyEn

Msg(role, content) == [role |-> role, content |-> content]

\* get_translated_topic
TopicTable ==
    [t \in {"Political ideologies and perspectives", "Current Debate Topic"} |->
        IF t = "Political ideologies and perspectives"
        THEN [l \in SupportedLanguages |->
                IF l = "en" THEN "Political ideologies and perspectives"
                ELSE "Politische Ideologien und Perspektiven"]
        ELSE [l \in SupportedLanguages |->
                IF l = "en" THEN "Current Debate Topic"
                ELSE "Aktuelles Debatten-Thema"]]

GetTranslatedTopic(topic, language) ==
    IF topic \in DOMAIN TopicTable /\ language \in DOMAIN TopicTable[topic]
    THEN TopicTable[topic][language]
    ELSE topic

\* ------------------------------------------------------------- dict helpers
Put(f, k, v) == [x \in (DOMAIN f) \cup {k} |-> IF x = k THEN v ELSE f[x]]
\* faulty variant: every key is deleted
DelAll(f, k) == << >>

Del(f, k) == [x \in (DOMAIN f) \ {k} |-> f[x]]

\* ---------------------------------------------------------- recommendations
Min(a, b) == IF a < b THEN a ELSE b

RecommendedAnswer(text, id) == [text |-> text, id |-> id]

\* faulty variant: the position is left out of the id
RecIdConstant(prefix, i) == [prefix |-> prefix, index |-> 0]

\* f"{prefix}{i}"
RecId(prefix, i) == [prefix |-> prefix, index |-> i]

\* the static `fallbacks` table of _get_fallback_recommendations
Fallbacks(language) ==
    IF language = "de"
    THEN << <<"de_q0">>, <<"de_q1">>, <<"de_q2">>, <<"de_q3">>, <<"de_q4">> >>
    ELSE << <<"en_q0">>, <<"en_q1">>, <<"en_q2">>, <<"en_q3">>, <<"en_q4">> >>

GetFallbackRecommendations(language, num_recommendations) ==
    LET language_fallbacks == Fallbacks(language)
        k == Min(num_recommendations, Len(language_fallbacks))
    IN  [i \in 1..k |->
            RecommendedAnswer(language_fallbacks[i], RecId("fallback_", i - 1))]

\* The model's recommendation text is a sequence of JSON tokens; " " is
\* whitespace, "prose" is any text that is not JSON.
StringTokens == {"q1", "q2", "q3", "q4", "blank"}
ScalarTokens == StringTokens \cup {"7", "null"}

\* the Python str a JSON string token decodes to
TokenText(tok) ==
    CASE tok = "q1" -> <<"q", "1">>
      [] tok = "q2" -> <<"q", "2">>
      [] tok = "q3" -> <<"q", "3">>
      [] tok = "q4" -> <<"q", "4">>
      [] OTHER -> <<" ">>

\* re.search(r'\[.*\]', text, re.DOTALL): from the first "[" to the last "]"
RegexSearch(text) ==
    LET opens == {i \in 1..Len(text) : text[i] = "["}
    IN  IF opens = {} THEN [found |-> FALSE, group |-> << >>]
        ELSE LET first == CHOOSE i \in opens : \A j \in opens : i <= j
                 closes == {j \in 1..Len(text) : text[j] = "]" /\ j > first}
             IN  IF closes = {} THEN [found |-> FALSE, group |-> << >>]
                 ELSE LET last == CHOOSE j \in closes : \A k \in closes : k <= j
                      IN  [found |-> TRUE, group |-> SubSeq(text, first, last)]

IsFlatArray(toks) ==
    /\ Len(toks) >= 2
    /\ toks[1] = "["
    /\ toks[Len(toks)] = "]"
    /\ \/ Len(toks) = 2
       \/ /\ Len(toks) % 2 = 1
          /\ \A i \in 2..(Len(toks) - 1) :
                IF i % 2 = 0 THEN toks[i] \in ScalarTokens ELSE toks[i] = ","

ArrayItems(toks) ==
    LET n == (Len(toks) - 1) \div 2
    IN  [i \in 1..n |-> toks[2 * i]]

IsJsonObject(toks) ==
    /\ Len(toks) >= 2
    /\ toks[1] = "{"
    /\ toks[Len(toks)] = "}"
    /\ \/ Len(toks) = 2
       \/ /\ Len(toks) >= 5
          /\ toks[2] \in StringTokens
          /\ toks[3] = ":"
          /\ LET v == SubSeq(toks, 4, Len(toks) - 1)
             IN  (Len(v) = 1 /\ v[1] \in ScalarTokens) \/ IsFlatArray(v)

\* json.loads: decode error, a list, or another JSON value
JsonLoads(toks) ==
    IF IsFlatArray(toks)
    THEN [ok |-> TRUE, is_list |-> TRUE, items |-> ArrayItems(toks)]
    ELSE IF (Len(toks) = 1 /\ toks[1] \in ScalarTokens) \/ IsJsonObject(toks)
    THEN [ok |-> TRUE, is_list |-> FALSE, items |-> << >>]
    ELSE [ok |-> FALSE, is_list |-> FALSE, items |-> << >>]

\* isinstance(rec, str) and rec.strip()
IsValidRecommendation(tok) == tok \in StringTokens /\ Truthy(Strip(TokenText(tok)))

\* _get_recommended_answers from the point where the completion call returned
\* `outcome`: kind "error" (APIError, APIConnectionError, RateLimitError or
\* timeout), "nochoices", "null" (content is None) or "text".
ParseRecommendations(outcome, language, num_recommendations) ==
    LET fallback == GetFallbackRecommendations(language, num_recommendations)
    IN  IF outcome.kind # "text" THEN fallback
        ELSE LET response_text == Strip(outcome.content)
                 json_match == RegexSearch(response_text)
                 parsed == IF json_match.found THEN JsonLoads(json_match.group)
                           ELSE JsonLoads(response_text)
             IN  IF ~parsed.ok THEN fallback
                 ELSE IF ~parsed.is_list \/ Len(parsed.items) = 0 THEN fallback
                 ELSE LET head == SubSeq(parsed.items, 1,
                                         Min(num_recommendations, Len(parsed.items)))
                          valid_recommendations ==
                              SelectSeq(head, LAMBDA tok : IsValidRecommendation(tok))
                      IN  IF Len(valid_recommendations) = 0 THEN fallback
                          ELSE [i \in 1..Len(valid_recommendations) |->
                                  RecommendedAnswer(TokenText(valid_recommendations[i]),
                                                    RecId("rec_", i - 1))]

\* _get_recommended_answers as a whole: without a client, or without a
\* prompt template for the language (KeyError caught by `except Exception`),
\* it answers with the static list and makes no completion call.
GetRecommendedAnswers(has_client, outcome, language, num_recommendations) ==
    IF ~has_client \/ language \notin SupportedLanguages
    THEN GetFallbackRecommendations(language, num_recommendations)
    ELSE ParseRecommendations(outcome, language, num_recommendations)

\* Recommendation payloads the model answers a call of the service with:
\* prose, arrays of three and of two strings, a JSON object, and an array
\* with no usable entry.
RecPayloads ==
    { <<"prose">>,
      <<"[", "q1", ",", "q2", ",", "q3", "]">>,
      <<" ", "[", "q1", ",", "q2", "]">>,
      <<"{", "q1", ":", "q2", "}">>,
      <<"[", "7", ",", "blank", "]">> }

RecOutcomes ==
    {[kind |-> k, content |-> << >>] : k \in {"error", "nochoices", "null"}}
        \cup {[kind |-> "text", content |-> p] : p \in RecPayloads}

\* Payloads for the generator taken alone: every array of at most MaxItems
\* entries drawn from two questions, a blank string and a number, each of
\* them bare, surrounded by prose, and nested as the value of a JSON object;
\* and texts that hold no array.
RecItems == {"q1", "q2", "blank", "7"}

RECURSIVE ItemSeqs(_)
ItemSeqs(n) ==
    IF n = 0 THEN {<< >>}
    ELSE {Append(items, x) : items \in ItemSeqs(n - 1), x \in RecItems}

RECURSIVE Joined(_)
Joined(items) ==
    IF Len(items) = 0 THEN << >>
    ELSE IF Len(items) = 1 THEN <<items[1]>>
    ELSE <<items[1], ",">> \o Joined(Tail(items))

\* the JSON text of an array
ArrayText(items) == <<"[">> \o Joined(items) \o <<"]">>

ArrayPayloads == {ArrayText(items) : items \in UNION {ItemSeqs(n) : n \in 0..MaxItems}}

ProsePayloads == {<<"prose", " ">> \o a \o <<" ", "prose">> : a \in ArrayPayloads}

NestedPayloads == {<<"{", "q1", ":">> \o a \o <<"}">> : a \in ArrayPayloads}

PlainPayloads ==
    { << >>, <<" ">>, <<"prose">>, <<"q1">>, <<"7">>, <<"{", "}">>,
      <<"{", "q1", ":", "q2", "}">>, <<"[", "q1">>,
      <<"[", "q1", "]", "prose", "[", "q2", "]">> }

GeneratorOutcomes ==
    {[kind |-> k, content |-> << >>] : k \in {"error", "nochoices", "null"}}
        \cup {[kind |-> "text", content |-> p] :
                p \in ArrayPayloads \cup ProsePayloads \cup NestedPayloads
                        \cup PlainPayloads}

\* Replies the model may give to the chat completion call.
AiTexts == {<<"x", " ">>, <<" ">>}

AiOutcomes ==
    {[kind |-> k, content |-> << >>] : k \in {"error", "nochoices", "null"}}
        \cup {[kind |-> "text", content |-> c] : c \in AiTexts}

AiKind(outcome) == IF outcome.kind = "text" THEN "text" ELSE "failed"

\* faulty variant: the reply is returned as the model gave it, not stripped
AiResponseUnstripped(outcome, language) ==
    IF outcome.kind = "text" THEN outcome.content
    ELSE GetFallbackResponse(language)

\* _get_ai_response from the point where the completion call returned `outcome`
AiResponse(outcome, language) ==
    IF outcome.kind = "text" THEN Strip(outcome.content)
    ELSE GetFallbackResponse(language)

\* ------------------------------------------------------------------- state
VARIABLES
    client,             \* module-level `client`: TRUE when AsyncOpenAI was built
    sessions,           \* ChatService._sessions: id -> list of messages
    session_languages,  \* ChatService._session_languages: id -> language
    tasks,              \* the coroutines in flight, one per slot
    calls,              \* number of start / process calls admitted so far
    user_appends,       \* history variable: User entries appended to the
                        \* current history list of each id
    id_status,          \* history variable: the last call that returned for
                        \* each id: "never" (none yet), "reset", "used" (other)
    rec_call,           \* a call of the recommendation generator taken alone:
                        \* its arguments, the completion outcome, its result
    append_call         \* a call of _add_to_history taken alone: its arguments
                        \* and the exception it raised, if any

\* the prototype service (src/app.py), a separate program
VARIABLES
    bot_sessions,       \* bot_sessions: session id -> bots, message_count, topic
    flask_reply         \* the HTTP response of the last request handled

prototype_vars == <<bot_sessions, flask_reply>>

\* the application lifecycle (backend/app/main.py)
VARIABLES
    app_state,          \* app_state: the keys set so far and their values
    lifespan_at,        \* where the lifespan context manager stands
    now,                \* time.time()
    settings,           \* the settings singleton of core/config.py
    probe               \* the response of the last /ready or /health request

lifecycle_vars == <<app_state, lifespan_at, now, settings, probe>>

service_vars == <<client, sessions, session_languages, tasks, calls, user_appends,
                  id_status, rec_call, append_call>>

vars == <<service_vars, prototype_vars, lifecycle_vars>>

NoResult ==
    [kind |-> "none", error |-> "", text |-> << >>, session_id |-> "-",
     message_count |-> -1, language |-> "none", recommended_answers |-> << >>,
     topic |-> "", status |-> "", found |-> FALSE]

NoPre == [has_history |-> FALSE, length |-> 0]

NoOutcome == [kind |-> "none", content |-> << >>]

NoAppendCall ==
    [pc |-> "idle", session_id |-> "-", role |-> "none", content |-> << >>,
     raised |-> "none"]

NoRecCall ==
    [pc |-> "idle", fn |-> "none", outcome |-> NoOutcome, language |-> "none",
     num_recommendations |-> 0, result |-> << >>]

IdleTask ==
    [pc |-> "idle", op |-> "none", session_id |-> "-", message |-> << >>,
     arg_language |-> "none", language |-> "none", response |-> << >>,
     result |-> NoResult,
     request |-> << >>, \* the `messages` of the completion call in flight
     ai |-> "-",        \* history variable: how the reply was obtained,
                        \* "failed" (apology substituted) or "text"
     pre |-> NoPre]

\* history variable: whether the call found a history for `id`, and its length
Snapshot(id) ==
    [has_history |-> id \in DOMAIN sessions,
     length |-> IF id \in DOMAIN sessions THEN Len(sessions[id]) ELSE 0]

\* flask's reply before any request was handled; `session_id` is the id
\* the request carried and `stored_before` the message_count stored for it
\* when the request arrived (-1: no bot session), both history variables
NoReply ==
    [route |-> "none", status |-> 0, message_count |-> -1, topic |-> << >>,
     responses |-> << >>, session_id |-> "none", stored_before |-> -1]

\* bot_sessions = {} (app.py:48)
PrototypeIdle ==
    /\ bot_sessions = << >>
    /\ flask_reply = NoReply

\* no /ready or /health request answered yet; `lifespan_at` is a history
\* variable: where the lifespan stood when the request was answered
NoProbe ==
    [route |-> "none", status_code |-> 0, status |-> "", ready |-> FALSE,
     uptime |-> 0, lifespan_at |-> "none"]

\* the settings of a correctly configured deployment
DefaultSettings == [OPENAI_API_KEY |-> "sk-", ENVIRONMENT |-> "development"]

\* app_state = {} (main.py:22), lifespan not entered yet
LifecycleIdle ==
    /\ app_state = << >>
    /\ lifespan_at = "created"
    /\ now = 1
    /\ settings = DefaultSettings
    /\ probe = NoProbe

Init ==
    /\ client \in BOOLEAN
    /\ sessions = << >>
    /\ session_languages = << >>
    /\ tasks = [t \in Tasks |-> IdleTask]
    /\ calls = 0
    /\ user_appends = [i \in Ids |-> 0]
    /\ id_status = [i \in Ids |-> "never"]
    /\ rec_call = NoRecCall
    /\ append_call = NoAppendCall
    /\ PrototypeIdle
    /\ LifecycleIdle

\* ------------------------------------------------------------ store methods
\* cls._sessions[session_id] = [{"role": "system", "content": system_prompt}]
InitializeSession(ss, session_id, language) ==
    Put(ss, session_id, <<Msg("system", SystemPrompt(language))>>)

\* faulty variant: the message replaces the history instead of being appended
AddToHistoryAssign(ss, session_id, role, content) ==
    IF IsBlank(content) THEN ss
    ELSE Put(ss, session_id, <<Msg(role, content)>>)

AddToHistory(ss, session_id, role, content) ==
    LET ss1 == IF session_id \notin DOMAIN ss THEN Put(ss, session_id, << >>) ELSE ss
    IN  IF IsBlank(content) THEN ss1
        ELSE [ss1 EXCEPT ![session_id] = Append(@, Msg(role, content))]

\* faulty variant: counts every message that is not a System message
UserTurnCountNonSystem(history) ==
    Len(SelectSeq(history, LAMBDA m : m.role # "system"))

\* len([m for m in cls._sessions[session_id] if m["role"] == "user"])
UserTurnCount(history) == Len(SelectSeq(history, LAMBDA m : m.role = "user"))

\* faulty variant: the stored language is ignored
GetLanguageDefaultOnly(sl, session_id) == "en"

\* cls._session_languages.get(session_id, 'en')
GetLanguage(sl, session_id) ==
    IF session_id \in DOMAIN sl THEN sl[session_id] ELSE "en"

\* ------------------------------------------------------------------ results
Raise(err) == [NoResult EXCEPT !.kind = "raise", !.error = err]

ProcessResult(ss, tk, recs) ==
    IF tk.session_id \notin DOMAIN ss THEN Raise("KeyError")
    ELSE [NoResult EXCEPT
            !.kind = "return",
            !.text = tk.response,
            !.session_id = tk.session_id,
            !.message_count = UserTurnCount(ss[tk.session_id]),
            !.language = tk.language,
            !.recommended_answers = recs,
            !.topic = GetTranslatedTopic("Current Debate Topic", tk.language)]

StartResult(tk, recs) ==
    [NoResult EXCEPT
        !.kind = "return",
        !.text = tk.response,
        !.session_id = tk.session_id,
        !.recommended_answers = recs,
        !.message_count = 1,
        !.topic = GetTranslatedTopic("Political ideologies and perspectives", tk.language),
        !.language = tk.language]

Result(ss, tk, recs) ==
    IF tk.op = "process" THEN ProcessResult(ss, tk, recs) ELSE StartResult(tk, recs)

Done(tk, result) == [tk EXCEPT !.pc = "done", !.result = result]

\* ----------------------------------------------------------------- actions
\* A finished coroutine hands its result to its caller before the event loop
\* runs anything else.
NoneDone == \A u \in Tasks : tasks[u].pc # "done"

\* A call takes the lowest free slot (slots are anonymous).
Admit(t, session_id) ==
    /\ NoneDone
    /\ tasks[t].pc = "idle"
    /\ \A u \in Tasks : u < t => tasks[u].pc # "idle"

AdmitTurn(t, session_id) ==
    /\ Admit(t, session_id)
    /\ calls < MaxTurns
    /\ calls' = calls + 1

\* the system message of the recommendation request; the language is part
\* of its text
RecommendationSystem(language) ==
    <<"Respond ONLY with a JSON array of strings in", language>>

\* templates[language][prompt_type]: the opening template names the count
\* only, the follow-up template quotes user_input and names the count
Templates(language, prompt_type, user_input, num_recommendations) ==
    IF prompt_type = "opening"
    THEN <<"opening", language, ToString(num_recommendations)>>
    ELSE <<"Based on: ">> \o user_input
             \o <<"followup", language, ToString(num_recommendations)>>

\* the `messages` of the completion call of _get_recommended_answers
RecommendationMessages(user_input, language, is_opening, num_recommendations) ==
    <<Msg("system", RecommendationSystem(language)),
      Msg("user", Templates(language,
                            IF is_opening THEN "opening" ELSE "followup",
                            user_input, num_recommendations))>>

\* The caller's code from the return of _get_ai_response (`response`) to the
\* next suspension or the end of the call: the emptiness check, the Assistant
\* append and the entry of _get_recommended_answers, which answers with the
\* fallback list at once when there is no client or no template for the
\* language (KeyError caught by its `except Exception`).
AfterAiResponse(t, tk, ss, response) ==
    IF ~Truthy(response)
    THEN /\ sessions' = ss
         /\ tasks' = [tasks EXCEPT ![t] = Done(tk, Raise("ValueError"))]
    ELSE LET ss1 == AddToHistory(ss, tk.session_id, "assistant", response)
             tk1 == [tk EXCEPT !.response = response]
         IN  /\ sessions' = ss1
             /\ IF client /\ tk1.language \in SupportedLanguages
                THEN tasks' = [tasks EXCEPT ![t] =
                        [tk1 EXCEPT !.pc = "rec_wait",
                                    !.request = RecommendationMessages(
                                        tk1.message, tk1.language,
                                        tk1.op = "start", NumRecommendations)]]
                ELSE tasks' = [tasks EXCEPT ![t] =
                        Done(tk1, Result(ss1, tk1,
                             GetFallbackRecommendations(tk1.language, NumRecommendations)))]

\* the language_instruction of _get_ai_response; the language is part of
\* its text
LanguageInstruction(language) == <<"Respond in this language only", language>>

\* temp_messages = cls._sessions[session_id] + [language_instruction]
TempMessages(history, language) ==
    history \o <<Msg("system", LanguageInstruction(language))>>

\* faulty variant: the instruction is appended to the stored history itself
EnterAiResponsePersists(t, tk, ss) ==
    IF client /\ tk.session_id \in DOMAIN ss
    THEN /\ sessions' = Put(ss, tk.session_id,
                             TempMessages(ss[tk.session_id], tk.language))
         /\ tasks' = [tasks EXCEPT ![t] =
                [tk EXCEPT !.pc = "ai_wait",
                           !.request = TempMessages(ss[tk.session_id], tk.language)]]
    ELSE AfterAiResponse(t, [tk EXCEPT !.ai = "failed"], ss,
                         GetFallbackResponse(tk.language))

\* _get_ai_response up to its completion call: with no client or no session
\* it answers with the apology at once, otherwise it sends the history and
\* the language instruction and the coroutine suspends.
EnterAiResponse(t, tk, ss) ==
    IF client /\ tk.session_id \in DOMAIN ss
    THEN /\ sessions' = ss
         /\ tasks' = [tasks EXCEPT ![t] =
                [tk EXCEPT !.pc = "ai_wait",
                           !.request = TempMessages(ss[tk.session_id], tk.language)]]
    ELSE AfterAiResponse(t, [tk EXCEPT !.ai = "failed"], ss,
                         GetFallbackResponse(tk.language))

ProcessMessage(t, message, session_id, language) ==
    /\ AdmitTurn(t, session_id)
    /\ UNCHANGED <<prototype_vars, lifecycle_vars, append_call, rec_call, client, id_status>>
    /\ LET tk0 == [IdleTask EXCEPT !.op = "process", !.session_id = session_id,
                                   !.message = message, !.arg_language = language,
                                   !.pre = Snapshot(session_id)]
       IN  IF IsBlank(message)
           THEN /\ tasks' = [tasks EXCEPT ![t] = Done(tk0, Raise("ValueError"))]
                /\ UNCHANGED <<sessions, session_languages, user_appends>>
           ELSE LET lang == IF language = "none"
                            THEN GetLanguage(session_languages, session_id)
                            ELSE language
                    sl1 == IF language = "none" THEN session_languages
                           ELSE Put(session_languages, session_id, language)
                    absent == session_id \notin DOMAIN sessions
                    sl2 == IF absent THEN Put(sl1, session_id, lang) ELSE sl1
                    ss1 == IF absent THEN InitializeSession(sessions, session_id, lang)
                           ELSE sessions
                    ss2 == AddToHistory(ss1, session_id, "user", message)
                    tk == [tk0 EXCEPT !.language = lang]
                IN  /\ session_languages' = sl2
                    /\ user_appends' = [user_appends EXCEPT ![session_id] =
                                            (IF absent THEN 0 ELSE @) + 1]
                    /\ EnterAiResponse(t, tk, ss2)

StartConversation(t, session_id, language) ==
    /\ AdmitTurn(t, session_id)
    /\ UNCHANGED <<prototype_vars, lifecycle_vars, append_call, rec_call, client, id_status>>
    /\ LET tk0 == [IdleTask EXCEPT !.op = "start", !.session_id = session_id,
                                   !.arg_language = language,
                                   !.pre = Snapshot(session_id)]
       IN  IF language = "none" \/ language \notin SupportedLanguages
           THEN /\ tasks' = [tasks EXCEPT ![t] = Done(tk0, Raise("ValueError"))]
                /\ UNCHANGED <<sessions, session_languages, user_appends>>
           ELSE LET tk == [tk0 EXCEPT !.language = language]
                IN  /\ session_languages' = Put(session_languages, session_id, language)
                    /\ user_appends' = [user_appends EXCEPT ![session_id] = 0]
                    /\ EnterAiResponse(t, tk,
                            InitializeSession(sessions, session_id, language))

\* faulty variant: the stored language survives the reset
ResetConversationKeepLanguage(t, session_id) ==
    /\ Admit(t, session_id)
    /\ sessions' = Del(sessions, session_id)
    /\ user_appends' = [user_appends EXCEPT ![session_id] = 0]
    /\ tasks' = [tasks EXCEPT ![t] =
            Done([IdleTask EXCEPT !.op = "reset", !.session_id = session_id,
                                  !.pre = Snapshot(session_id)],
                 [NoResult EXCEPT !.kind = "return", !.status = "success",
                                  !.session_id = session_id])]
    /\ UNCHANGED <<prototype_vars, lifecycle_vars, append_call, rec_call, client, calls, id_status, session_languages>>

\* faulty variant: `del` without the membership test raises KeyError on an absent id
ResetConversationUnchecked(t, session_id) ==
    /\ Admit(t, session_id)
    /\ user_appends' = [user_appends EXCEPT ![session_id] = 0]
    /\ IF session_id \in DOMAIN sessions /\ session_id \in DOMAIN session_languages
       THEN /\ sessions' = Del(sessions, session_id)
            /\ session_languages' = Del(session_languages, session_id)
            /\ tasks' = [tasks EXCEPT ![t] =
                    Done([IdleTask EXCEPT !.op = "reset", !.session_id = session_id,
                                          !.pre = Snapshot(session_id)],
                         [NoResult EXCEPT !.kind = "return", !.status = "success",
                                          !.session_id = session_id])]
       ELSE /\ UNCHANGED <<sessions, session_languages>>
            /\ tasks' = [tasks EXCEPT ![t] =
                    Done([IdleTask EXCEPT !.op = "reset", !.session_id = session_id,
                                          !.pre = Snapshot(session_id)],
                         Raise("KeyError"))]
    /\ UNCHANGED <<prototype_vars, lifecycle_vars, append_call, rec_call, client, calls, id_status>>

ResetConversation(t, session_id) ==
    /\ Admit(t, session_id)
    /\ sessions' = Del(sessions, session_id)
    /\ session_languages' = Del(session_languages, session_id)
    /\ user_appends' = [user_appends EXCEPT ![session_id] = 0]
    /\ tasks' = [tasks EXCEPT ![t] =
            Done([IdleTask EXCEPT !.op = "reset", !.session_id = session_id,
                                  !.pre = Snapshot(session_id)],
                 [NoResult EXCEPT !.kind = "return", !.status = "success",
                                  !.session_id = session_id])]
    /\ UNCHANGED <<prototype_vars, lifecycle_vars, append_call, rec_call, client, calls, id_status>>

\* faulty variant: the session is initialised again in the new language
UpdateLanguageReinitializes(t, session_id, language) ==
    /\ Admit(t, session_id)
    /\ UNCHANGED <<prototype_vars, lifecycle_vars, append_call, rec_call, client, user_appends, calls, id_status>>
    /\ LET tk0 == [IdleTask EXCEPT !.op = "update", !.session_id = session_id,
                                   !.arg_language = language,
                                   !.pre = Snapshot(session_id)]
       IN  IF language \notin SupportedLanguages
           THEN /\ tasks' = [tasks EXCEPT ![t] = Done(tk0, Raise("ValueError"))]
                /\ UNCHANGED <<sessions, session_languages>>
           ELSE IF session_id \in DOMAIN session_languages
           THEN /\ session_languages' = [session_languages EXCEPT ![session_id] = language]
                /\ sessions' = InitializeSession(sessions, session_id, language)
                /\ tasks' = [tasks EXCEPT ![t] =
                        Done(tk0, [NoResult EXCEPT !.kind = "return", !.found = TRUE])]
           ELSE /\ UNCHANGED <<sessions, session_languages>>
                /\ tasks' = [tasks EXCEPT ![t] =
                        Done(tk0, [NoResult EXCEPT !.kind = "return", !.found = FALSE])]

UpdateLanguage(t, session_id, language) ==
    /\ Admit(t, session_id)
    /\ UNCHANGED <<prototype_vars, lifecycle_vars, append_call, rec_call, client, sessions, user_appends, calls, id_status>>
    /\ LET tk0 == [IdleTask EXCEPT !.op = "update", !.session_id = session_id,
                                   !.arg_language = language,
                                   !.pre = Snapshot(session_id)]
       IN  IF language \notin SupportedLanguages
           THEN /\ tasks' = [tasks EXCEPT ![t] = Done(tk0, Raise("ValueError"))]
                /\ UNCHANGED session_languages
           ELSE IF session_id \in DOMAIN session_languages
           THEN /\ session_languages' = [session_languages EXCEPT ![session_id] = language]
                /\ tasks' = [tasks EXCEPT ![t] =
                        Done(tk0, [NoResult EXCEPT !.kind = "return", !.found = TRUE])]
           ELSE /\ UNCHANGED session_languages
                /\ tasks' = [tasks EXCEPT ![t] =
                        Done(tk0, [NoResult EXCEPT !.kind = "return", !.found = FALSE])]

\* faulty variant: after an error the completion call is issued once more
AiReturnRetries(t, outcome) ==
    /\ NoneDone
    /\ tasks[t].pc = "ai_wait"
    /\ IF outcome.kind = "error" /\ tasks[t].ai # "retry"
       THEN /\ tasks' = [tasks EXCEPT ![t].ai = "retry"]
            /\ UNCHANGED sessions
       ELSE AfterAiResponse(t, [tasks[t] EXCEPT !.ai = AiKind(outcome),
                                                !.request = << >>],
                            sessions, AiResponse(outcome, tasks[t].language))
    /\ UNCHANGED <<prototype_vars, lifecycle_vars, append_call, rec_call, client, session_languages, calls, user_appends,
                   id_status>>

\* the chat completion call of _get_ai_response returns or fails
AiReturn(t, outcome) ==
    /\ NoneDone
    /\ tasks[t].pc = "ai_wait"
    /\ AfterAiResponse(t, [tasks[t] EXCEPT !.ai = AiKind(outcome), !.request = << >>],
                       sessions,
                       AiResponse(outcome, tasks[t].language))
    /\ UNCHANGED <<prototype_vars, lifecycle_vars, append_call, rec_call, client, session_languages, calls, user_appends, id_status>>

\* faulty variant: an error raised by the completion call reaches the caller
RecReturnPropagates(t, outcome) ==
    /\ NoneDone
    /\ tasks[t].pc = "rec_wait"
    /\ tasks' = [tasks EXCEPT ![t] =
            Done(tasks[t],
                 IF outcome.kind = "error" THEN Raise("APIError")
                 ELSE Result(sessions, tasks[t],
                             ParseRecommendations(outcome, tasks[t].language,
                                                  NumRecommendations)))]
    /\ UNCHANGED <<prototype_vars, lifecycle_vars, append_call, rec_call, client, sessions, session_languages, calls, user_appends,
                   id_status>>

\* faulty variant: after an error the completion call is issued again, without end
RecReturnRetries(t, outcome) ==
    /\ NoneDone
    /\ tasks[t].pc = "rec_wait"
    /\ tasks' = [tasks EXCEPT ![t] =
            IF outcome.kind = "error"
            THEN [tasks[t] EXCEPT !.ai = IF @ = "again" THEN "once more" ELSE "again"]
            ELSE Done(tasks[t], Result(sessions, tasks[t],
                      ParseRecommendations(outcome, tasks[t].language,
                                           NumRecommendations)))]
    /\ UNCHANGED <<prototype_vars, lifecycle_vars, append_call, rec_call, client, sessions, session_languages, calls,
                   user_appends, id_status>>

\* the completion call of _get_recommended_answers returns or fails
RecReturn(t, outcome) ==
    /\ NoneDone
    /\ tasks[t].pc = "rec_wait"
    /\ tasks' = [tasks EXCEPT ![t] =
            Done(tasks[t], Result(sessions, tasks[t],
                 ParseRecommendations(outcome, tasks[t].language, NumRecommendations)))]
    /\ UNCHANGED <<prototype_vars, lifecycle_vars, append_call, rec_call, client, sessions, session_languages, calls, user_appends, id_status>>

\* faulty variant: the abort takes the last entry of the history back
CancelRollsBack(t) ==
    /\ NoneDone
    /\ tasks[t].pc \in {"ai_wait", "rec_wait"}
    /\ tasks' = [tasks EXCEPT ![t] = Done(tasks[t], Raise("CancelledError"))]
    /\ sessions' =
          IF tasks[t].session_id \in DOMAIN sessions
             /\ Len(sessions[tasks[t].session_id]) >= 1
          THEN [sessions EXCEPT ![tasks[t].session_id] = SubSeq(@, 1, Len(@) - 1)]
          ELSE sessions
    /\ UNCHANGED <<prototype_vars, lifecycle_vars, append_call, rec_call, client, session_languages, calls, user_appends, id_status>>

\* the caller's connection aborts: CancelledError is raised at the await and
\* passes `except Exception`
Cancel(t) ==
    /\ NoneDone
    /\ tasks[t].pc \in {"ai_wait", "rec_wait"}
    /\ tasks' = [tasks EXCEPT ![t] = Done(tasks[t], Raise("CancelledError"))]
    /\ UNCHANGED <<prototype_vars, lifecycle_vars, append_call, rec_call, client, sessions, session_languages, calls, user_appends, id_status>>

\* the result or error is delivered to the caller and the coroutine ends
Return(t) ==
    /\ tasks[t].pc = "done"
    /\ tasks' = [tasks EXCEPT ![t] = IdleTask]
    /\ id_status' = [id_status EXCEPT ![tasks[t].session_id] =
                        IF tasks[t].op = "reset" THEN "reset" ELSE "used"]
    /\ UNCHANGED <<prototype_vars, lifecycle_vars, append_call, rec_call, client, sessions, session_languages, calls, user_appends>>

Next ==
    \/ \E t \in Tasks, m \in Messages, i \in Ids, l \in LangArgs : ProcessMessage(t, m, i, l)
    \/ \E t \in Tasks, i \in Ids, l \in LangArgs : StartConversation(t, i, l)
    \/ \E t \in Tasks, i \in Ids : ResetConversation(t, i)
    \/ \E t \in Tasks, i \in Ids, l \in LangArgs : UpdateLanguage(t, i, l)
    \/ \E t \in Tasks, o \in AiOutcomes : AiReturn(t, o)
    \/ \E t \in Tasks, o \in RecOutcomes : RecReturn(t, o)
    \/ \E t \in Tasks : Cancel(t)
    \/ \E t \in Tasks : Return(t)

Spec == Init /\ [][Next]_vars

\* Calls on one id do not overlap: a call is admitted only when no call
\* on the same id is in flight.
Isolated(session_id) ==
    \A u \in Tasks : tasks[u].pc = "idle" \/ tasks[u].session_id # session_id

NextIsolated ==
    \/ \E t \in Tasks, m \in Messages, i \in Ids, l \in LangArgs :
            Isolated(i) /\ ProcessMessage(t, m, i, l)
    \/ \E t \in Tasks, i \in Ids, l \in LangArgs : Isolated(i) /\ StartConversation(t, i, l)
    \/ \E t \in Tasks, i \in Ids : Isolated(i) /\ ResetConversation(t, i)
    \/ \E t \in Tasks, i \in Ids, l \in LangArgs : Isolated(i) /\ UpdateLanguage(t, i, l)
    \/ \E t \in Tasks, o \in AiOutcomes : AiReturn(t, o)
    \/ \E t \in Tasks, o \in RecOutcomes : RecReturn(t, o)
    \/ \E t \in Tasks : Cancel(t)
    \/ \E t \in Tasks : Return(t)

SpecIsolated == Init /\ [][NextIsolated]_vars

\* Every completion call that was issued eventually returns or fails
\* (timeout=30 and timeout=15 bound the wait), however often the event loop
\* is busy with other calls, and the event loop eventually delivers the
\* result of a finished coroutine.
Fairness ==
    \A t \in Tasks :
        /\ SF_vars(\E o \in AiOutcomes : AiReturn(t, o))
        /\ SF_vars(\E o \in RecOutcomes : RecReturn(t, o))
        /\ WF_vars(Return(t))

\* Calls of startConversation and processMessage on one id do not overlap
\* each other; resetConversation and updateLanguage run at any time, also
\* while a call on the id is suspended.
NextLive ==
    \/ \E t \in Tasks, m \in Messages, i \in Ids, l \in LangArgs :
            Isolated(i) /\ ProcessMessage(t, m, i, l)
    \/ \E t \in Tasks, i \in Ids, l \in LangArgs : Isolated(i) /\ StartConversation(t, i, l)
    \/ \E t \in Tasks, i \in Ids : ResetConversation(t, i)
    \/ \E t \in Tasks, i \in Ids, l \in LangArgs : UpdateLanguage(t, i, l)
    \/ \E t \in Tasks, o \in AiOutcomes : AiReturn(t, o)
    \/ \E t \in Tasks, o \in RecOutcomes : RecReturn(t, o)
    \/ \E t \in Tasks : Cancel(t)
    \/ \E t \in Tasks : Return(t)

SpecLive == Init /\ [][NextLive]_vars /\ Fairness

\* Only processMessage calls, none of them cancelled.
NextTurns ==
    \/ \E t \in Tasks, m \in Messages, i \in Ids, l \in LangArgs : ProcessMessage(t, m, i, l)
    \/ \E t \in Tasks, o \in AiOutcomes : AiReturn(t, o)
    \/ \E t \in Tasks, o \in RecOutcomes : RecReturn(t, o)
    \/ \E t \in Tasks : Return(t)

SpecTurns == Init /\ [][NextTurns]_vars

\* Two session ids in use at once, with one message and fewer language
\* arguments per call.
CrossIds == {"s1", "s2"}

InitCross ==
    /\ client \in BOOLEAN
    /\ sessions = << >>
    /\ session_languages = << >>
    /\ tasks = [t \in Tasks |-> IdleTask]
    /\ calls = 0
    /\ user_appends = [i \in CrossIds |-> 0]
    /\ id_status = [i \in CrossIds |-> "never"]
    /\ rec_call = NoRecCall
    /\ append_call = NoAppendCall
    /\ PrototypeIdle
    /\ LifecycleIdle

CrossAiOutcomes ==
    {[kind |-> "error", content |-> << >>], [kind |-> "text", content |-> <<"x", " ">>]}

CrossRecOutcomes == {[kind |-> "error", content |-> << >>]}

NextCross ==
    \/ \E t \in Tasks, i \in CrossIds : ProcessMessage(t, <<" ", "a">>, i, "none")
    \/ \E t \in Tasks, i \in CrossIds : StartConversation(t, i, "en")
    \/ \E t \in Tasks, i \in CrossIds : ResetConversation(t, i)
    \/ \E t \in Tasks, i \in CrossIds : UpdateLanguage(t, i, "de")
    \/ \E t \in Tasks, o \in CrossAiOutcomes : AiReturn(t, o)
    \/ \E t \in Tasks, o \in CrossRecOutcomes : RecReturn(t, o)
    \/ \E t \in Tasks : Cancel(t)
    \/ \E t \in Tasks : Return(t)

SpecCross == InitCross /\ [][NextCross]_vars

\* _add_to_history taken alone: one call on a store as the service leaves
\* it, each id without a session or with a history and a language.
AppendHistories ==
    { <<Msg("system", PersonaEn)>>,
      <<Msg("system", PersonaEn), Msg("user", <<" ", "a">>),
        Msg("assistant", <<"x">>)>> }

AppendStores ==
    UNION {[ids -> AppendHistories] : ids \in SUBSET CrossIds}

AppendCalls ==
    {[NoAppendCall EXCEPT !.pc = "called", !.session_id = i, !.role = r,
                          !.content = c] :
        i \in CrossIds, r \in {"user", "assistant"}, c \in Messages}

InitAppend ==
    /\ client \in BOOLEAN
    /\ sessions \in AppendStores
    /\ session_languages = [i \in DOMAIN sessions |-> "en"]
    /\ tasks = [t \in Tasks |-> IdleTask]
    /\ calls = 0
    /\ user_appends = [i \in Ids |-> 0]
    /\ id_status = [i \in Ids |-> "never"]
    /\ rec_call = NoRecCall
    /\ append_call \in AppendCalls
    /\ PrototypeIdle
    /\ LifecycleIdle

\* nothing inside the try block of _add_to_history raises, so its
\* `except ...: raise` never runs
AddToHistoryReturn ==
    /\ append_call.pc = "called"
    /\ sessions' = AddToHistory(sessions, append_call.session_id, append_call.role,
                                append_call.content)
    /\ append_call' = [append_call EXCEPT !.pc = "returned", !.raised = "none"]
    /\ UNCHANGED <<prototype_vars, lifecycle_vars, client, session_languages, tasks, calls, user_appends, id_status,
                   rec_call>>

NextAppend == AddToHistoryReturn

SpecAppend == InitAppend /\ [][NextAppend]_vars

\* The HTTP transport (api/endpoints.py). A request body either carries a
\* language that passes the Literal['en', 'de'] validation or omits the
\* field; a body that fails validation is answered 422 before the handler
\* runs and changes nothing.
RequestLanguageFields == {"en", "de", "omitted"}

\* the `language` attribute of ChatRequest and StartConversationRequest
RequestLanguage(field) == IF field = "omitted" THEN "en" ELSE field

\* POST /message
SendMessage(t, message, session_id, field) ==
    /\ field \in RequestLanguageFields
    /\ ProcessMessage(t, message, session_id, RequestLanguage(field))

\* POST /start
StartConversationEndpoint(t, session_id, field) ==
    /\ field \in RequestLanguageFields
    /\ StartConversation(t, session_id, RequestLanguage(field))

NextTransport ==
    \/ \E t \in Tasks, m \in Messages, i \in Ids, f \in RequestLanguageFields :
            SendMessage(t, m, i, f)
    \/ \E t \in Tasks, i \in Ids, f \in RequestLanguageFields :
            StartConversationEndpoint(t, i, f)
    \/ \E t \in Tasks, i \in Ids : ResetConversation(t, i)
    \/ \E t \in Tasks, o \in AiOutcomes : AiReturn(t, o)
    \/ \E t \in Tasks, o \in RecOutcomes : RecReturn(t, o)
    \/ \E t \in Tasks : Cancel(t)
    \/ \E t \in Tasks : Return(t)

SpecTransport == Init /\ [][NextTransport]_vars

\* The recommendation generator taken alone: a call of
\* _get_recommended_answers or of _get_fallback_recommendations with
\* arguments and a completion outcome drawn from the bounded sets above.
GeneratorLanguages == LangArgs \ {"none"}

GeneratorCalls ==
    {[NoRecCall EXCEPT !.pc = "called", !.fn = "answers", !.outcome = o,
                       !.language = l, !.num_recommendations = n] :
        o \in GeneratorOutcomes, l \in GeneratorLanguages, n \in 0..MaxCount}
    \cup
    {[NoRecCall EXCEPT !.pc = "called", !.fn = "fallback",
                       !.language = l, !.num_recommendations = n] :
        l \in GeneratorLanguages, n \in 0..MaxCount}

InitRecs ==
    /\ client \in BOOLEAN
    /\ sessions = << >>
    /\ session_languages = << >>
    /\ tasks = [t \in Tasks |-> IdleTask]
    /\ calls = 0
    /\ user_appends = [i \in Ids |-> 0]
    /\ id_status = [i \in Ids |-> "never"]
    /\ rec_call \in GeneratorCalls
    /\ append_call = NoAppendCall
    /\ PrototypeIdle
    /\ LifecycleIdle

GetRecommendedAnswersReturn ==
    /\ rec_call.pc = "called"
    /\ rec_call.fn = "answers"
    /\ rec_call' = [rec_call EXCEPT
            !.pc = "returned",
            !.result = GetRecommendedAnswers(client, rec_call.outcome, rec_call.language,
                                             rec_call.num_recommendations)]
    /\ UNCHANGED <<prototype_vars, lifecycle_vars, client, sessions, session_languages, tasks, calls, user_appends,
                   id_status, append_call>>

GetFallbackRecommendationsReturn ==
    /\ rec_call.pc = "called"
    /\ rec_call.fn = "fallback"
    /\ rec_call' = [rec_call EXCEPT
            !.pc = "returned",
            !.result = GetFallbackRecommendations(rec_call.language,
                                                  rec_call.num_recommendations)]
    /\ UNCHANGED <<prototype_vars, lifecycle_vars, client, sessions, session_languages, tasks, calls, user_appends,
                   id_status, append_call>>

NextRecs ==
    \/ GetRecommendedAnswersReturn
    \/ GetFallbackRecommendationsReturn

SpecRecs == InitRecs /\ [][NextRecs]_vars

\* ------------------------------------------------ prototype (src/app.py)
\* The flask prototype keeps one bot session per browser session. Its text
\* is a sequence of words (" " is a blank); requests are handled one after
\* the other.

\* session.get('session_id'): None until the index page was visited
SessionCookies == {"none", "c1"}

\* two of the removal_phrases of self_clean_message
RemovalPhrases == {"as an ai", "my name is"}

HeatedWords == {"wrong", "false", "ridiculous", "stupid", "ignorant"}

\* str.lower() on the words used here
Lower(word) ==
    CASE word = "As an AI" -> "as an ai"
      [] word = "Wrong" -> "wrong"
      [] OTHER -> word

\* message[0].upper() + message[1:]
Capitalize(message) ==
    IF message = << >> THEN message
    ELSE [message EXCEPT ![1] = IF @ = "borders" THEN "Borders" ELSE @]

\* self_clean_message for a message that holds at most one removal phrase:
\* everything up to the first sentence end after the phrase is dropped
SelfCleanMessage(message) ==
    LET hits == {i \in 1..Len(message) : Lower(message[i]) \in RemovalPhrases}
    IN  IF hits = {} THEN message
        ELSE LET phrase_pos == CHOOSE i \in hits : \A k \in hits : i <= k
                 ends == {k \in phrase_pos..Len(message) : message[k] = "."}
             IN  IF ends = {} THEN message
                 ELSE LET sentence_end == CHOOSE e \in ends : \A k \in ends : e <= k
                      IN  Capitalize(Strip(SubSeq(message, sentence_end + 1,
                                                  Len(message))))

\* self_clean_message(topic).split("New angle: ")[-1].strip()
TopicOf(text) ==
    LET cleaned == SelfCleanMessage(text)
        at == {i \in 1..Len(cleaned) : cleaned[i] = "New angle: "}
    IN  IF at = {} THEN Strip(cleaned)
        ELSE LET last == CHOOSE i \in at : \A k \in at : k <= i
             IN  Strip(SubSeq(cleaned, last + 1, Len(cleaned)))

\* any(word in user_message.lower() for word in [...])
Heated(user_message) ==
    \E i \in 1..Len(user_message) : Lower(user_message[i]) \in HeatedWords

\* data.get('message', '')
UserMessages == {<< >>, <<"hello">>, <<"so", "Wrong">>}

\* DiscussionBot.respond returns the model's text or raises
RespondOutcomes(texts) ==
    {[kind |-> "raise", content |-> << >>]}
        \cup {[kind |-> "text", content |-> c] : c \in texts}

PartnerOutcomes ==
    RespondOutcomes({<<"borders">>, <<"As an AI", "I", "agree", ".", " ", "borders">>})

TopicOutcomes == RespondOutcomes({<<"New angle: ", "taxes">>, <<"taxes", " ">>})

ModeratorOutcomes == RespondOutcomes({<<"context">>})

\* what the respond calls of one send_message give, in the order asked
SendOutcomes ==
    [partner : PartnerOutcomes, topic : TopicOutcomes,
     philosopher : ModeratorOutcomes, psychologist : ModeratorOutcomes]

\* the number of replies each bot has saved to its memory since it was
\* built (the system prompt is saved by the constructor)
InitializeBots == [partner |-> 0, philosopher |-> 0, psychologist |-> 0]

FreshBotSession ==
    [bots |-> InitializeBots, message_count |-> 0,
     topic |-> <<"Political ideologies and perspectives">>]

GetBotSession(bs, session_id) ==
    IF session_id \notin DOMAIN bs THEN Put(bs, session_id, FreshBotSession) ELSE bs

StoredCount(bs, session_id) ==
    IF session_id \in DOMAIN bs THEN bs[session_id].message_count ELSE -1

\* respond() saves the exchange to the memory of the bot that answered
Responded(bot_session, bot) == [bot_session EXCEPT !.bots[bot] = @ + 1]

BotResponse(sender, message) == [sender |-> sender, message |-> message]

\* the `except Exception` of send_message: what was written to the bot
\* session so far stays
SendFailed(bot_session) ==
    [session |-> bot_session, status |-> 500, message_count |-> -1, topic |-> << >>,
     responses |-> <<BotResponse("System", <<"Sorry">>)>>]

\* the try block of send_message on `bot_session`
SendMessageBody(bot_session, user_message, o) ==
    IF o.partner.kind = "raise" THEN SendFailed(bot_session)
    ELSE
    LET s1 == Responded(bot_session, "partner")
        partner_response == SelfCleanMessage(o.partner.content)
        r1 == <<BotResponse("Debate Partner", partner_response)>>
        message_count == bot_session.message_count + 1
        switch == message_count % 6 = 0
        philosopher == message_count % 3 = 0 /\ Heated(user_message)
        psychologist == message_count % 5 = 0
    IN  IF switch /\ o.topic.kind = "raise" THEN SendFailed(s1)
        ELSE
        LET s2 == IF switch
                  THEN [Responded(s1, "partner") EXCEPT !.topic = TopicOf(o.topic.content)]
                  ELSE s1
        IN  IF philosopher /\ o.philosopher.kind = "raise" THEN SendFailed(s2)
            ELSE
            LET s3 == IF philosopher THEN Responded(s2, "philosopher") ELSE s2
                r3 == IF philosopher
                      THEN Append(r1, BotResponse("Philosopher Moderator",
                                      SelfCleanMessage(o.philosopher.content)))
                      ELSE r1
            IN  IF psychologist /\ o.psychologist.kind = "raise" THEN SendFailed(s3)
                ELSE
                LET s4 == IF psychologist THEN Responded(s3, "psychologist") ELSE s3
                    r4 == IF psychologist
                          THEN Append(r3, BotResponse("Psychologist Moderator",
                                          SelfCleanMessage(o.psychologist.content)))
                          ELSE r3
                IN  [session |-> [s4 EXCEPT !.message_count = message_count],
                     status |-> 200, message_count |-> message_count,
                     topic |-> s2.topic, responses |-> r4]

FlaskReply(route, session_id, status) ==
    [NoReply EXCEPT !.route = route, !.session_id = session_id, !.status = status,
                    !.stored_before = StoredCount(bot_sessions, session_id)]

\* requests on a session are admitted while its debate partner has saved
\* fewer than MaxExchanges replies
Admitted(session_id) ==
    session_id \in DOMAIN bot_sessions =>
        bot_sessions[session_id].bots.partner < MaxExchanges

\* GET /api/start_conversation; an exception of respond() is not caught and
\* flask answers 500
AppStartConversation(session_id, o) ==
    /\ Admitted(session_id)
    /\ UNCHANGED <<service_vars, lifecycle_vars>>
    /\ IF session_id = "none"
       THEN /\ flask_reply' = FlaskReply("start_conversation", session_id, 400)
            /\ UNCHANGED bot_sessions
       ELSE LET bs1 == GetBotSession(bot_sessions, session_id)
            IN  IF o.kind = "raise"
                THEN /\ bot_sessions' = bs1
                     /\ flask_reply' = FlaskReply("start_conversation", session_id, 500)
                ELSE LET s1 == [Responded(bs1[session_id], "partner") EXCEPT
                                    !.message_count = 1,
                                    !.topic = <<"Immigration and National Identity">>]
                     IN  /\ bot_sessions' = Put(bs1, session_id, s1)
                         /\ flask_reply' =
                              [FlaskReply("start_conversation", session_id, 200) EXCEPT
                                  !.message_count = s1.message_count,
                                  !.topic = s1.topic,
                                  !.responses = <<BotResponse("Debate Partner",
                                                    SelfCleanMessage(o.content))>>]

\* POST /api/send_message
AppSendMessage(session_id, user_message, o) ==
    /\ Admitted(session_id)
    /\ UNCHANGED <<service_vars, lifecycle_vars>>
    /\ IF user_message = << >> \/ session_id = "none"
       THEN /\ flask_reply' = FlaskReply("send_message", session_id, 400)
            /\ UNCHANGED bot_sessions
       ELSE LET bs1 == GetBotSession(bot_sessions, session_id)
                out == SendMessageBody(bs1[session_id], user_message, o)
            IN  /\ bot_sessions' = Put(bs1, session_id, out.session)
                /\ flask_reply' =
                     [FlaskReply("send_message", session_id, out.status) EXCEPT
                         !.message_count = out.message_count,
                         !.topic = out.topic,
                         !.responses = out.responses]

\* faulty variant: the bot session is fetched with get_bot_session, which
\* creates one for an id that has none
AppResetConversationCreates(session_id) ==
    /\ UNCHANGED <<service_vars, lifecycle_vars>>
    /\ IF session_id # "none"
       THEN /\ bot_sessions' = Put(bot_sessions, session_id, FreshBotSession)
            /\ flask_reply' = FlaskReply("reset", session_id, 200)
       ELSE /\ UNCHANGED bot_sessions
            /\ flask_reply' = FlaskReply("reset", session_id, 400)

\* POST /api/reset
AppResetConversation(session_id) ==
    /\ UNCHANGED <<service_vars, lifecycle_vars>>
    /\ IF session_id # "none" /\ session_id \in DOMAIN bot_sessions
       THEN /\ bot_sessions' = Put(bot_sessions, session_id, FreshBotSession)
            /\ flask_reply' = FlaskReply("reset", session_id, 200)
       ELSE /\ UNCHANGED bot_sessions
            /\ flask_reply' = FlaskReply("reset", session_id, 400)

\* the chat service with a client, before any call
ServiceIdle ==
    /\ client = TRUE
    /\ sessions = << >>
    /\ session_languages = << >>
    /\ tasks = [t \in Tasks |-> IdleTask]
    /\ calls = 0
    /\ user_appends = [i \in Ids |-> 0]
    /\ id_status = [i \in Ids |-> "never"]
    /\ rec_call = NoRecCall
    /\ append_call = NoAppendCall

InitPrototype ==
    /\ ServiceIdle
    /\ PrototypeIdle
    /\ LifecycleIdle

NextPrototype ==
    \/ \E c \in SessionCookies, o \in PartnerOutcomes : AppStartConversation(c, o)
    \/ \E c \in SessionCookies, m \in UserMessages, o \in SendOutcomes :
            AppSendMessage(c, m, o)
    \/ \E c \in SessionCookies : AppResetConversation(c)

SpecPrototype == InitPrototype /\ [][NextPrototype]_vars

\* ------------------------------ application lifecycle (backend/app/main.py)
\* The lifespan context manager runs once per process: its part before the
\* `yield` when the server starts, its part after when the server stops. No
\* part awaits, so each is one step of the event loop.

\* dict.get(key, default)
Get(d, key, default) == IF key \in DOMAIN d THEN d[key] ELSE default

\* dict.update(entries)
Update(d, entries) ==
    [k \in (DOMAIN d) \cup (DOMAIN entries) |->
        IF k \in DOMAIN entries THEN entries[k] ELSE d[k]]

\* the settings singleton: a key that is a placeholder or an ENVIRONMENT
\* outside the pattern fails the validation of Settings() and leaves the
\* EmergencySettings (no key, "development")
SettingsChoices ==
    {[OPENAI_API_KEY |-> "", ENVIRONMENT |-> "development"],
     [OPENAI_API_KEY |-> "sk-", ENVIRONMENT |-> "development"],
     [OPENAI_API_KEY |-> "sk-", ENVIRONMENT |-> "staging"]}

\* OPENAI_API_KEY.startswith("your-")
StartsWithYour(key) == key = "your-key"

\* Settings.validate_for_usage
ValidateForUsage(st) ==
    /\ st.OPENAI_API_KEY # ""
    /\ st.ENVIRONMENT \in {"development", "staging", "production"}

\* time.time() moves on
Tick ==
    /\ now < MaxTime
    /\ now' = now + 1
    /\ UNCHANGED <<service_vars, prototype_vars, app_state, lifespan_at, settings, probe>>

\* lifespan up to its `yield`
LifespanStartup ==
    /\ lifespan_at = "created"
    /\ app_state' = Put(Update(app_state,
                               [startup_time |-> now, healthy |-> TRUE,
                                ready |-> FALSE, shutting_down |-> FALSE]),
                        "ready", TRUE)
    /\ lifespan_at' = "serving"
    /\ UNCHANGED <<service_vars, prototype_vars, now, settings, probe>>

\* what the `finally` of lifespan writes
ShutdownEntries(d) ==
    [shutting_down |-> TRUE, healthy |-> FALSE, ready |-> FALSE,
     shutdown_time |-> now, uptime |-> now - d["startup_time"]]

\* faulty variant: the `finally` leaves `ready` as it is
LifespanShutdownKeepsReady(cause) ==
    /\ lifespan_at = "serving"
    /\ app_state' = Update(app_state,
                           [shutting_down |-> TRUE, healthy |-> FALSE,
                            shutdown_time |-> now,
                            uptime |-> now - app_state["startup_time"]])
    /\ lifespan_at' = "stopped"
    /\ UNCHANGED <<service_vars, prototype_vars, now, settings, probe>>

\* lifespan from its `yield` on: the server stops ("exit") or an exception
\* is thrown into the context manager ("exception"), which runs the except
\* clause first; the `finally` runs in both cases
LifespanShutdown(cause) ==
    /\ lifespan_at = "serving"
    /\ LET d == IF cause = "exception"
                THEN Put(Put(app_state, "healthy", FALSE), "ready", FALSE)
                ELSE app_state
       IN  app_state' = Update(d, ShutdownEntries(d))
    /\ lifespan_at' = "stopped"
    /\ UNCHANGED <<service_vars, prototype_vars, now, settings, probe>>

\* GET /ready
ReadinessCheck ==
    /\ probe' = [NoProbe EXCEPT
                    !.route = "ready",
                    !.lifespan_at = lifespan_at,
                    !.status_code = IF Get(app_state, "ready", FALSE) THEN 200 ELSE 503,
                    !.status = IF Get(app_state, "ready", FALSE)
                               THEN "ready" ELSE "not ready"]
    /\ UNCHANGED <<service_vars, prototype_vars, app_state, lifespan_at, now, settings>>

\* GET /health
HealthCheck ==
    /\ LET components ==
               [openai |-> /\ settings.OPENAI_API_KEY # ""
                           /\ ~StartsWithYour(settings.OPENAI_API_KEY),
                configuration |-> ValidateForUsage(settings),
                memory |-> TRUE]
           status0 == IF Get(app_state, "healthy", FALSE) THEN "healthy" ELSE "unhealthy"
           status1 == IF \A c \in DOMAIN components : components[c]
                      THEN status0 ELSE "degraded"
           status2 == IF Get(app_state, "shutting_down", FALSE)
                      THEN "shutting_down" ELSE status1
       IN  probe' = [NoProbe EXCEPT
                        !.route = "health",
                        !.lifespan_at = lifespan_at,
                        !.status = status2,
                        !.ready = Get(app_state, "ready", FALSE),
                        !.uptime = IF Get(app_state, "startup_time", 0) # 0
                                   THEN now - Get(app_state, "startup_time", 0)
                                   ELSE 0,
                        !.status_code = IF status2 = "healthy" THEN 200 ELSE 503]
    /\ UNCHANGED <<service_vars, prototype_vars, app_state, lifespan_at, now, settings>>

InitLifecycle ==
    /\ ServiceIdle
    /\ PrototypeIdle
    /\ app_state = << >>
    /\ lifespan_at = "created"
    /\ now = 1
    /\ settings \in SettingsChoices
    /\ probe = NoProbe

NextLifecycle ==
    \/ Tick
    \/ LifespanStartup
    \/ \E cause \in {"exit", "exception"} : LifespanShutdown(cause)
    \/ ReadinessCheck
    \/ HealthCheck

SpecLifecycle == InitLifecycle /\ [][NextLifecycle]_vars

\* ------------------------------------------------------------------ claims
IsPrefix(a, b) == Len(a) <= Len(b) /\ SubSeq(b, 1, Len(a)) = a

\* call `op` in slot t has just returned a value to its caller
ReturnedOk(t, op) ==
    /\ tasks[t].pc = "done"
    /\ tasks[t].op = op
    /\ tasks[t].result.kind = "return"

\* slot t is admitting a call of `op` in this step
Begins(t, op) == tasks[t].pc = "idle" /\ tasks'[t].op = op

\* the history of `id` ends with User(message), Assistant(reply)
EndsWithTurn(id, message, reply) ==
    /\ id \in DOMAIN sessions
    /\ LET h == sessions[id]
       IN  /\ Len(h) >= 2
           /\ h[Len(h) - 1] = Msg("user", message)
           /\ h[Len(h)] = Msg("assistant", reply)

\* C1: every id that has a history has a System message as history[0], in
\* every reachable state, also when calls on the same id interleave.
C1_SystemFirst ==
    \A id \in DOMAIN sessions :
        Len(sessions[id]) >= 1 /\ sessions[id][1].role = "system"

\* C2: for an id that has a session, every step that is not a
\* resetConversation on that id keeps the session and keeps its history
\* entries as a prefix of the new history.
C2_AppendOnly ==
    [][\A id \in DOMAIN sessions :
          (\A t \in Tasks : ~(Begins(t, "reset") /\ tasks'[t].session_id = id))
          => /\ id \in DOMAIN sessions'
             /\ IsPrefix(sessions[id], sessions'[id])]_vars

\* the history at the return of a processMessage, against what it found
C3_AtReturn ==
    \A t \in Tasks :
        ReturnedOk(t, "process") =>
            LET tk == tasks[t]
                id == tk.session_id
                found == IF tk.pre.has_history THEN tk.pre.length ELSE 1
            IN  /\ id \in DOMAIN sessions
                /\ Len(sessions[id]) = found + 2
                /\ EndsWithTurn(id, tk.message, tk.result.text)
                /\ id_status[id] = "never" =>
                        /\ Len(sessions[id]) = 3
                        /\ sessions[id][1] = Msg("system", SystemPrompt(tk.language))

\* a step that leaves a processMessage call in flight on an id keeps the
\* entries of that id's history
C3_Step ==
    \A id \in DOMAIN sessions :
        (\E t \in Tasks : /\ tasks'[t].op = "process"
                          /\ tasks'[t].session_id = id
                          /\ tasks'[t].pc # "idle")
        => /\ id \in DOMAIN sessions'
           /\ IsPrefix(sessions[id], sessions'[id])

\* C3: with no other call on the same id in flight, a processMessage that
\* returns a response has extended the history it found (or the fresh
\* [System] of a lazily created session) by exactly two entries,
\* User(message) then Assistant(response), response being the value
\* returned, and no step of the call changed an entry that was already
\* there; on a never-seen id the history is exactly [System, User(message),
\* Assistant(response)].
C3_TurnAppendsUserThenAssistant == [](C3_AtReturn) /\ [][C3_Step]_vars

C3_Witness ==
    \E t \in Tasks :
        /\ ReturnedOk(t, "process")
        /\ tasks[t].pre.has_history
        /\ tasks[t].pre.length >= 2
        /\ Len(sessions[tasks[t].session_id]) >= 4

C6_ResetThenProcessAsNeverSeen ==
    \A t \in Tasks :
        (ReturnedOk(t, "process") /\ id_status[tasks[t].session_id] \in {"never", "reset"}) =>
            LET tk == tasks[t]
                id == tk.session_id
                eff == IF tk.arg_language = "none" THEN "en" ELSE tk.arg_language
            IN  /\ id \in DOMAIN sessions
                /\ sessions[id] = <<Msg("system", SystemPrompt(eff)),
                                    Msg("user", tk.message),
                                    Msg("assistant", tk.result.text)>>
                /\ id \in DOMAIN session_languages
                /\ session_languages[id] = eff
                /\ tk.result.language = eff
                /\ tk.result.message_count = 1

C6_Witness ==
    \E t \in Tasks :
        /\ ReturnedOk(t, "process")
        /\ id_status[tasks[t].session_id] = "reset"
        /\ tasks[t].arg_language = "none"

\* C7: resetConversation always returns {status: "success", session_id: id}
\* and leaves neither history nor language for id; called on an id that has
\* neither (as after a previous reset) it leaves the store unchanged.
C7_ResetIdempotentTotal ==
    [][\A t \in Tasks :
          Begins(t, "reset") =>
            LET id == tasks'[t].session_id
                r == tasks'[t].result
            IN  /\ tasks'[t].pc = "done"
                /\ r.kind = "return"
                /\ r.status = "success"
                /\ r.session_id = id
                /\ id \notin DOMAIN sessions'
                /\ id \notin DOMAIN session_languages'
                /\ (id \notin DOMAIN sessions /\ id \notin DOMAIN session_languages)
                        => (sessions' = sessions /\ session_languages' = session_languages)]_vars

C7_Witness ==
    \E t \in Tasks :
        /\ ReturnedOk(t, "reset")
        /\ id_status[tasks[t].session_id] = "reset"
        /\ tasks[t].result.status = "success"

\* C8: when processMessage calls on one id overlap, the history is that of
\* some serial execution: the User message of every call that returned is
\* immediately followed by the Assistant reply returned for it.
C8_TurnsAtomic ==
    \A t \in Tasks :
        ReturnedOk(t, "process") =>
            LET tk == tasks[t]
                id == tk.session_id
            IN  /\ id \in DOMAIN sessions
                /\ \E i \in 1..(Len(sessions[id]) - 1) :
                        /\ sessions[id][i] = Msg("user", tk.message)
                        /\ sessions[id][i + 1] = Msg("assistant", tk.result.text)

\* C9: a history or a stored language comes into being for an id only in the
\* step that admits a startConversation or processMessage call for that id,
\* never in the resumption of a call that was suspended when the id was
\* reset.
C9_NoResurrection ==
    [][\A id \in Ids :
          ((id \notin DOMAIN sessions /\ id \in DOMAIN sessions')
             \/ (id \notin DOMAIN session_languages /\ id \in DOMAIN session_languages'))
          => \E t \in Tasks :
                /\ Begins(t, "start") \/ Begins(t, "process")
                /\ tasks'[t].session_id = id]_vars

\* C10: when the text generation of a processMessage fails (no client, an
\* error raised, no choices), the reply is the apology of the effective
\* language (German for 'de', English otherwise), it is appended as an
\* Assistant entry after the User message, and the call returns it.
C10_FailureGivesApology ==
    \A t \in Tasks :
        (tasks[t].op = "process" /\ tasks[t].ai = "failed") =>
            LET tk == tasks[t]
                apology == IF tk.language = "de" THEN ApologyDe ELSE ApologyEn
            IN  /\ tk.pc \in {"rec_wait", "done"}
                /\ tk.response = apology
                /\ tk.pc = "rec_wait" => EndsWithTurn(tk.session_id, tk.message, apology)
                /\ tk.pc = "done" =>
                        \/ tk.result.error = "CancelledError"
                        \/ /\ tk.result.kind = "return"
                           /\ tk.result.text = apology
                           /\ EndsWithTurn(tk.session_id, tk.message, apology)

C10_Witness ==
    \E t \in Tasks :
        /\ ReturnedOk(t, "process")
        /\ tasks[t].ai = "failed"
        /\ tasks[t].language = "de"
        /\ client

\* C11: a startConversation called with a supported language returns a
\* response whose opening_message is not empty, whatever the chat completion
\* call did: raised an error or timed out, gave no choices, or gave a text
\* that is empty or only whitespace (the caller did not abort the call).
C11_StartAlwaysOpens ==
    \A t \in Tasks :
        (/\ tasks[t].pc = "done"
         /\ tasks[t].op = "start"
         /\ tasks[t].arg_language \in SupportedLanguages
         /\ tasks[t].result.error # "CancelledError")
        => /\ tasks[t].result.kind = "return"
           /\ Truthy(Strip(tasks[t].result.text))

\* C12: the only error a startConversation, processMessage,
\* resetConversation or updateLanguage call hands to its caller is the
\* ValueError for a blank message or an unsupported language argument, under
\* every completion outcome and every interleaving of calls on one id (an
\* abort by the caller itself aside).
C12_OnlyInvalidArgument ==
    \A t \in Tasks :
        (/\ tasks[t].pc = "done"
         /\ tasks[t].result.kind = "raise"
         /\ tasks[t].result.error # "CancelledError")
        => /\ tasks[t].result.error = "ValueError"
           /\ \/ tasks[t].op = "process" /\ IsBlank(tasks[t].message)
              \/ /\ tasks[t].op \in {"start", "update"}
                 /\ tasks[t].arg_language \notin SupportedLanguages

\* a call that got its reply and was not aborted returns a response with a
\* list of recommendations
C13_AtReturn ==
    \A t \in Tasks :
        (/\ tasks[t].pc = "done"
         /\ tasks[t].op \in {"start", "process"}
         /\ Truthy(tasks[t].response)
         /\ tasks[t].result.error # "CancelledError")
        => /\ tasks[t].result.kind = "return"
           /\ Len(tasks[t].result.recommended_answers) >= 1
           /\ \A i \in 1..Len(tasks[t].result.recommended_answers) :
                 Truthy(Strip(tasks[t].result.recommended_answers[i].text))

\* the end of the recommendation call leaves the store as it was
C13_Step ==
    \A t \in Tasks :
        (tasks[t].pc = "rec_wait" /\ tasks'[t].pc = "done")
        => /\ sessions' = sessions
           /\ session_languages' = session_languages

\* C13: the recommendation generator never raises: with no client, an error
\* or timeout of the completion call, no choices, a payload that is not
\* JSON or not an array, or an array with no usable entry, it still gives a
\* list, so the startConversation or processMessage that called it returns
\* its response, and the step changes neither histories nor languages.
C13_RecommendationsNeverFail == [](C13_AtReturn) /\ [][C13_Step]_vars

C13_Witness ==
    \E t \in Tasks :
        /\ ReturnedOk(t, "process")
        /\ client
        /\ tasks[t].language \in SupportedLanguages
        /\ tasks[t].ai = "text"
        /\ tasks[t].result.recommended_answers[1].id.prefix = "fallback_"

\* the generator function `fn` has returned
Returned(fn) == rec_call.pc = "returned" /\ rec_call.fn = fn

\* `result` is the static list of `language` cut or filled to `count` entries
IsStaticList(result, language, count) ==
    /\ Len(result) = count
    /\ \A i \in 1..Len(result) :
          /\ result[i].id.prefix = "fallback_"
          /\ i <= Len(Fallbacks(language)) => result[i].text = Fallbacks(language)[i]

\* C14: when the text the model returned is not JSON, or is a JSON object
\* rather than an array (an object with an array as a nested value
\* included), the generator returns exactly the static list of the requested
\* language and length, every id beginning with 'fallback_'.
C14_MalformedGivesFallback ==
    (/\ Returned("answers")
     /\ rec_call.outcome.kind = "text"
     /\ LET text == Strip(rec_call.outcome.content)
        IN  ~JsonLoads(text).ok \/ IsJsonObject(text))
    => IsStaticList(rec_call.result, rec_call.language, rec_call.num_recommendations)

\* C15: the static fallback list has exactly `count` entries for every
\* requested count of at least one, cut when the static table is longer
\* and filled up when it is shorter, and it is never empty.
C15_FallbackHasCountEntries ==
    (Returned("fallback") /\ rec_call.num_recommendations >= 1)
    => /\ Len(rec_call.result) = rec_call.num_recommendations
       /\ Len(rec_call.result) >= 1

\* the completion call of the generator was made and returned a JSON array
ModelGaveArray ==
    /\ Returned("answers")
    /\ client
    /\ rec_call.language \in SupportedLanguages
    /\ rec_call.outcome.kind = "text"
    /\ IsFlatArray(Strip(rec_call.outcome.content))

\* C16: when the model returns a JSON array, the entries that are not
\* strings or are blank are dropped and the others are returned in their
\* order, at most `count` of them; the static list is used only when the
\* array holds no non-blank string at all, wherever the valid entries stand
\* in the array.
C16_ValidEntriesKept ==
    (ModelGaveArray /\ rec_call.num_recommendations >= 1) =>
        LET items == ArrayItems(Strip(rec_call.outcome.content))
            valid == SelectSeq(items, IsValidRecommendation)
            k == Min(rec_call.num_recommendations, Len(valid))
            result == rec_call.result
        IN  IF Len(valid) = 0
            THEN \A i \in 1..Len(result) : result[i].id.prefix = "fallback_"
            ELSE /\ Len(result) = k
                 /\ \A i \in 1..k :
                       result[i] = RecommendedAnswer(TokenText(valid[i]), RecId("rec_", i - 1))

\* C17: in one returned batch the ids are pairwise distinct; a batch built
\* from the model's output carries rec_0, rec_1, ... in list order without
\* gaps, a batch built from the static table carries only ids beginning
\* with 'fallback_', and no batch mixes the two kinds.
C17_IdsOfOneBatch ==
    rec_call.pc = "returned" =>
        LET result == rec_call.result
            static == {Fallbacks(rec_call.language)[i] :
                        i \in 1..Len(Fallbacks(rec_call.language))}
            proposed == {TokenText(rec_call.outcome.content[i]) :
                        i \in 1..Len(rec_call.outcome.content)}
        IN  /\ \A i, j \in 1..Len(result) : i # j => result[i].id # result[j].id
            /\ \/ \A i \in 1..Len(result) :
                     /\ result[i].id = [prefix |-> "rec_", index |-> i - 1]
                     /\ result[i].text \in proposed
                     /\ result[i].text \notin static
               \/ \A i \in 1..Len(result) :
                     /\ result[i].id.prefix = "fallback_"
                     /\ result[i].text \in static

C17_Witness ==
    /\ Returned("answers")
    /\ Len(rec_call.result) = 3
    /\ rec_call.result[3].id = [prefix |-> "rec_", index |-> 2]
    /\ Len(rec_call.outcome.content) = 9

\* C18: every response a startConversation or processMessage returns carries
\* exactly 3 recommended_answers, from the model or from the static list,
\* also when the model proposes fewer than 3 usable entries.
C18_ThreeRecommendations ==
    \A t \in Tasks :
        (ReturnedOk(t, "start") \/ ReturnedOk(t, "process"))
        => Len(tasks[t].result.recommended_answers) = 3

\* the language a processMessage admitted in this step works with, and what
\* it stores; a call in flight keeps its language
C19_Step ==
    \A t \in Tasks :
        /\ (Begins(t, "process") /\ ~IsBlank(tasks'[t].message)) =>
              LET id == tasks'[t].session_id
                  arg == tasks'[t].arg_language
                  eff == IF arg # "none" THEN arg
                         ELSE IF id \in DOMAIN session_languages
                              THEN session_languages[id] ELSE "en"
              IN  /\ tasks'[t].language = eff
                  /\ arg # "none" =>
                        /\ id \in DOMAIN session_languages'
                        /\ session_languages'[id] = arg
                  /\ (arg = "none" /\ id \in DOMAIN session_languages) =>
                        /\ id \in DOMAIN session_languages'
                        /\ session_languages'[id] = session_languages[id]
        /\ (tasks[t].op = "process" /\ tasks[t].pc # "idle" /\ tasks'[t].pc # "idle")
              => tasks'[t].language = tasks[t].language

C19_AtReturn ==
    \A t \in Tasks :
        ReturnedOk(t, "process") => tasks[t].result.language = tasks[t].language

\* C19: a language passed to processMessage is stored as the session's
\* language and used for the turn; with none passed the stored language of
\* the id is used, or 'en' if there is none; the `language` returned is that
\* effective language, so a later processMessage without a language works
\* in the language stored last.
C19_EffectiveLanguage == [](C19_AtReturn) /\ [][C19_Step]_vars

C19_Witness ==
    \E t \in Tasks :
        /\ ReturnedOk(t, "process")
        /\ tasks[t].arg_language = "none"
        /\ tasks[t].result.language = "de"
        /\ tasks[t].result.message_count = 2
        /\ session_languages[tasks[t].session_id] = "de"

\* C20: a send-message request that leaves out the language field, sent
\* through the transport to a session that was started in 'de', is
\* processed in 'de', and the session's language is still 'de' afterwards.
C20_OmittedLanguageInherits ==
    [][\A t \in Tasks, m \in Messages, id \in Ids :
          (/\ SendMessage(t, m, id, "omitted")
           /\ ~IsBlank(m)
           /\ id \in DOMAIN sessions
           /\ Len(sessions[id]) >= 1
           /\ sessions[id][1] = Msg("system", PersonaDe)
           /\ id \in DOMAIN session_languages
           /\ session_languages[id] = "de")
          => /\ tasks'[t].language = "de"
             /\ session_languages'[id] = "de"]_vars

\* C21: for supported L1 and L2, updateLanguage(id, L2) on a session that
\* was started in L1 makes L2 the stored language and leaves every history
\* as it was (length and contents); a processMessage without a language
\* then works in the stored language, that is in L2.
C21_UpdateSetsLanguageOnly ==
    [][\A t \in Tasks :
          /\ (/\ Begins(t, "update")
              /\ tasks'[t].arg_language \in SupportedLanguages
              /\ tasks'[t].session_id \in DOMAIN sessions
              /\ tasks'[t].session_id \in DOMAIN session_languages
              /\ session_languages[tasks'[t].session_id] \in SupportedLanguages)
             => /\ tasks'[t].session_id \in DOMAIN session_languages'
                /\ session_languages'[tasks'[t].session_id] = tasks'[t].arg_language
                /\ sessions' = sessions
                /\ tasks'[t].result.kind = "return"
          /\ (/\ Begins(t, "process")
              /\ tasks'[t].pc # "done"
              /\ tasks'[t].arg_language = "none"
              /\ tasks'[t].session_id \in DOMAIN session_languages)
             => tasks'[t].language = session_languages[tasks'[t].session_id]]_vars

C21_Witness ==
    \E t \in Tasks :
        /\ ReturnedOk(t, "update")
        /\ tasks[t].arg_language = "de"
        /\ tasks[t].pre.has_history
        /\ tasks[t].pre.length >= 2
        /\ sessions[tasks[t].session_id][1] = Msg("system", PersonaEn)
        /\ Len(sessions[tasks[t].session_id]) = tasks[t].pre.length
        /\ session_languages[tasks[t].session_id] = "de"

\* C22: updateLanguage(id, L) with a supported L returns true exactly when
\* a history exists for id at the time of the call and false otherwise, and
\* when it returns false it has created and changed nothing in the store.
C22_UpdateFoundIffHistory ==
    [][\A t \in Tasks :
          (Begins(t, "update") /\ tasks'[t].arg_language \in SupportedLanguages)
          => /\ tasks'[t].result.kind = "return"
             /\ tasks'[t].result.found = (tasks'[t].session_id \in DOMAIN sessions)
             /\ ~tasks'[t].result.found =>
                   (sessions' = sessions /\ session_languages' = session_languages)]_vars

\* C23: a processMessage with an empty or whitespace-only message, and a
\* startConversation or updateLanguage with a language outside {en, de},
\* fail with ValueError in the step that admits them: no completion call is
\* made, no session is created, and no history or stored language changes,
\* the language passed along with the blank message included.
C23_RejectedInputLeavesStore ==
    [][\A t \in Tasks :
          (\/ Begins(t, "process") /\ Strip(tasks'[t].message) = << >>
           \/ /\ Begins(t, "start") \/ Begins(t, "update")
              /\ tasks'[t].arg_language \notin SupportedLanguages)
          => /\ tasks'[t].pc = "done"
             /\ tasks'[t].result.kind = "raise"
             /\ tasks'[t].result.error = "ValueError"
             /\ sessions' = sessions
             /\ session_languages' = session_languages]_vars

C23_Witness ==
    \E t \in Tasks :
        /\ tasks[t].pc = "done"
        /\ tasks[t].op = "process"
        /\ tasks[t].message = <<" ">>
        /\ tasks[t].arg_language = "de"
        /\ tasks[t].result.error = "ValueError"
        /\ tasks[t].session_id \in DOMAIN session_languages
        /\ session_languages[tasks[t].session_id] = "en"

\* C24: in every reachable state the System message at history[0] of a
\* session is the persona prompt of the language currently stored for it,
\* also after an updateLanguage or a processMessage with an explicit
\* language other than the one the session was created with.
C24_PromptFollowsLanguage ==
    \A id \in (DOMAIN sessions) \cap (DOMAIN session_languages) :
        /\ Len(sessions[id]) >= 1
        /\ session_languages[id] = "de" => sessions[id][1] = Msg("system", PersonaDe)
        /\ session_languages[id] = "en" => sessions[id][1] = Msg("system", PersonaEn)

\* no stored history holds a language instruction, and none holds more than
\* one System message
C25_Stored ==
    \A id \in DOMAIN sessions :
        /\ \A i \in 1..Len(sessions[id]), l \in LangArgs :
              sessions[id][i].content # LanguageInstruction(l)
        /\ Len(SelectSeq(sessions[id], LAMBDA m : m.role = "system")) <= 1

\* what a call that suspends on its chat completion call has sent, against
\* the history it leaves stored
C25_Step ==
    \A t \in Tasks :
        (tasks[t].pc = "idle" /\ tasks'[t].pc = "ai_wait") =>
            LET id == tasks'[t].session_id
            IN  /\ id \in DOMAIN sessions'
                /\ tasks'[t].request =
                      sessions'[id] \o
                          <<Msg("system", LanguageInstruction(tasks'[t].language))>>

\* C25: the language instruction of a turn is transient: the request for a
\* reply carries the stored history plus one extra System instruction, and
\* sending it does not change the stored history, which never holds the
\* instruction and never holds more than one System message, after any
\* number of turns.
C25_InstructionTransient == [](C25_Stored) /\ [][C25_Step]_vars

C25_Witness ==
    \E t \in Tasks :
        /\ ReturnedOk(t, "process")
        /\ tasks[t].ai = "text"
        /\ tasks[t].result.message_count = 2
        /\ Len(sessions[tasks[t].session_id]) = 5
        /\ sessions[tasks[t].session_id][1].role = "system"

\* a processMessage is aborted while it waits for the reply
C26_Step ==
    \A t \in Tasks :
        (/\ tasks[t].op = "process"
         /\ tasks[t].pc = "ai_wait"
         /\ tasks'[t].pc = "done"
         /\ tasks'[t].result.error = "CancelledError")
        => /\ sessions' = sessions
           /\ session_languages' = session_languages
           /\ tasks[t].session_id \in DOMAIN sessions'
           /\ LET h == sessions'[tasks[t].session_id]
              IN  /\ Len(h) >= 1
                  /\ h[Len(h)] = Msg("user", tasks[t].message)

\* a processMessage that found a history ending with a User entry
C26_AtReturn ==
    \A t \in Tasks :
        (/\ ReturnedOk(t, "process")
         /\ tasks[t].pre.has_history
         /\ tasks[t].pre.length >= 1
         /\ tasks[t].session_id \in DOMAIN sessions
         /\ Len(sessions[tasks[t].session_id]) >= tasks[t].pre.length
         /\ sessions[tasks[t].session_id][tasks[t].pre.length].role = "user")
        => LET h == sessions[tasks[t].session_id]
               n == tasks[t].pre.length
           IN  /\ Len(h) = n + 2
               /\ h[n + 1] = Msg("user", tasks[t].message)
               /\ h[n + 2] = Msg("assistant", tasks[t].result.text)

\* C26: when a processMessage is cancelled while it waits for the reply,
\* the User message it appended stays in the history and nothing else of
\* the turn is written; the history then ends with a User entry that has no
\* reply, and the next processMessage on the id appends its own User and
\* Assistant entries after it.
C26_CancelledTurnStays == [](C26_AtReturn) /\ [][C26_Step]_vars

C26_Witness ==
    \E t \in Tasks :
        /\ tasks[t].pc = "done"
        /\ tasks[t].op = "process"
        /\ tasks[t].result.error = "CancelledError"
        /\ tasks[t].response = << >>
        /\ tasks[t].pre.has_history
        /\ Len(sessions[tasks[t].session_id]) = tasks[t].pre.length + 1
        /\ sessions[tasks[t].session_id][tasks[t].pre.length + 1] = Msg("user", tasks[t].message)

\* what the store holds for id: its history and its language, if any
StoreOf(ss, sl, id) ==
    <<IF id \in DOMAIN ss THEN <<ss[id]>> ELSE << >>,
      IF id \in DOMAIN sl THEN <<sl[id]>> ELSE << >> >>

\* the id of the call that takes a step in slot t
ActingId(t) ==
    IF tasks[t].pc = "idle" THEN tasks'[t].session_id ELSE tasks[t].session_id

\* C27: operations are independent across session ids: under every
\* interleaving, a step of a call for id A never creates, changes or
\* deletes the history or the stored language of another id B.
C27_IdsIndependent ==
    [][\A b \in CrossIds :
          StoreOf(sessions', session_languages', b) # StoreOf(sessions, session_languages, b)
          => \A t \in Tasks : tasks'[t] # tasks[t] => ActingId(t) = b]_vars

C27_Witness ==
    /\ "s2" \in DOMAIN sessions
    /\ Len(sessions["s2"]) >= 3
    /\ "s2" \in DOMAIN session_languages
    /\ \E t \in Tasks :
          /\ ReturnedOk(t, "reset")
          /\ tasks[t].session_id = "s1"
          /\ tasks[t].pre.has_history
    /\ \E u \in Tasks : tasks[u].pc = "rec_wait" /\ tasks[u].session_id = "s2"

\* C28: appending a message for an id that has no session fails with
\* NotFound and creates nothing for that id; appending empty or
\* whitespace-only content to an existing session changes nothing and
\* raises nothing.
C28_AppendNeedsSession ==
    [][(append_call.pc = "called" /\ append_call'.pc = "returned") =>
          /\ append_call.session_id \notin DOMAIN sessions =>
                /\ append_call'.raised = "NotFound"
                /\ sessions' = sessions
                /\ session_languages' = session_languages
          /\ (append_call.session_id \in DOMAIN sessions
                /\ Strip(append_call.content) = << >>) =>
                /\ append_call'.raised = "none"
                /\ sessions' = sessions]_vars

\* C29: no automatic retry: a startConversation or processMessage issues at
\* most one completion call for the reply and at most one for the
\* recommendations, in that order, the second only once the Assistant entry
\* is appended; when the reply call fails the apology is used at once, and
\* the end of the recommendation call ends the operation.
C29_NoRetry ==
    [][\A t \in Tasks :
          tasks'[t] # tasks[t] =>
            /\ tasks'[t].pc = "ai_wait" =>
                  /\ tasks[t].pc = "idle"
                  /\ tasks'[t].op \in {"start", "process"}
            /\ tasks'[t].pc = "rec_wait" =>
                  /\ tasks[t].pc \in {"idle", "ai_wait"}
                  /\ tasks'[t].op \in {"start", "process"}
                  /\ tasks'[t].session_id \in DOMAIN sessions'
                  /\ LET h == sessions'[tasks'[t].session_id]
                     IN  /\ Len(h) >= 1
                         /\ h[Len(h)] = Msg("assistant", tasks'[t].response)
            /\ (tasks[t].pc = "ai_wait" /\ tasks'[t].ai = "failed") =>
                  /\ tasks'[t].pc \in {"rec_wait", "done"}
                  /\ tasks'[t].response =
                        (IF tasks[t].language = "de" THEN ApologyDe ELSE ApologyEn)
            /\ tasks[t].pc = "rec_wait" => tasks'[t].pc = "done"]_vars

C29_Witness ==
    \E t \in Tasks :
        /\ ReturnedOk(t, "start")
        /\ client
        /\ tasks[t].ai = "failed"
        /\ tasks[t].result.text = ApologyEn
        /\ tasks[t].result.recommended_answers[1].id.prefix = "fallback_"

\* a coroutine is idle, suspended at one of its two completion calls, or
\* finished; resetConversation and updateLanguage never suspend
C30_Positions ==
    \A t \in Tasks :
        /\ tasks[t].pc \in {"idle", "ai_wait", "rec_wait", "done"}
        /\ tasks[t].pc \in {"ai_wait", "rec_wait"} => tasks[t].op \in {"start", "process"}

\* C30: every startConversation, processMessage, resetConversation and
\* updateLanguage call eventually completes with a result or an error,
\* provided every completion call it issues eventually returns or fails; a
\* call can be suspended only at its two completion calls.
C30_EveryCallCompletes ==
    /\ [](C30_Positions)
    /\ \A t \in Tasks : (tasks[t].pc \in {"ai_wait", "rec_wait"}) ~> (tasks[t].pc = "done")
    /\ \A t \in Tasks : (tasks[t].pc = "done") ~> (tasks[t].pc = "idle")

C30_Witness ==
    \E t \in Tasks :
        /\ ReturnedOk(t, "process")
        /\ client
        /\ tasks[t].ai = "text"
        /\ tasks[t].language = "de"
        /\ Len(tasks[t].result.recommended_answers) = 3
        /\ tasks[t].result.recommended_answers[1].id.prefix = "rec_"

\* whether `needle` is a run of consecutive elements of `hay`
Occurs(needle, hay) ==
    \E i \in 0..(Len(hay) - Len(needle)) :
        SubSeq(hay, i + 1, i + Len(needle)) = needle

\* history entries rendered as "role: content" lines, one after the other
RECURSIVE ContextLines(_)
ContextLines(entries) ==
    IF entries = << >> THEN << >>
    ELSE <<entries[1].role, ": ">> \o entries[1].content \o <<"\n">>
             \o ContextLines(Tail(entries))

\* the last min(6, n) of the n entries of `history` that are not System
LastContext(history) ==
    LET entries == SelectSeq(history, LAMBDA m : m.role # "system")
        k == Min(6, Len(entries))
    IN  SubSeq(entries, Len(entries) - k + 1, Len(entries))

\* C31: while a processMessage waits for its recommendations (follow-up
\* mode, no conversation-history string passed), the request it sent to the
\* model holds the user's message and, in history order, the last min(6, n)
\* non-System entries of the session's history.
C31_ContextInRequest ==
    \A t \in Tasks :
        (/\ tasks[t].pc = "rec_wait"
         /\ tasks[t].op = "process"
         /\ tasks[t].session_id \in DOMAIN sessions) =>
            \E i \in 1..Len(tasks[t].request) :
                /\ Occurs(tasks[t].message, tasks[t].request[i].content)
                /\ Occurs(ContextLines(LastContext(sessions[tasks[t].session_id])),
                          tasks[t].request[i].content)

\* C32: the stored language of every session is one of the supported
\* languages, whatever language arguments startConversation, processMessage
\* and updateLanguage were called with.
C32_StoredLanguageSupported ==
    \A id \in DOMAIN session_languages :
        session_languages[id] \in SupportedLanguages

\* C33: no session id is mapped to an empty history: an id has no history
\* entry at all or a history of at least one message, in every state the
\* operations of the service can leave, under any interleaving.
C33_NoEmptyHistory ==
    \A id \in DOMAIN sessions : Len(sessions[id]) >= 1

\* an append found no history for the id (a reset ran while the call was
\* suspended) and left a history that holds the appended entry only
C33_Witness ==
    \E id \in DOMAIN sessions :
        /\ Len(sessions[id]) = 1
        /\ sessions[id][1].role = "assistant"
        /\ \E t \in Tasks : /\ tasks[t].session_id = id
                             /\ tasks[t].op = "process"
                             /\ tasks[t].pc \in {"rec_wait", "done"}

\* C34: the history map and the language map have the same key set: an id
\* has a stored language exactly when it has a history, in every state and
\* under any interleaving.
C34_SameKeys == DOMAIN sessions = DOMAIN session_languages

\* C35: failed calls are all-or-nothing: when startConversation or
\* processMessage hands an error to its caller, the id has a history
\* exactly if it had one when the call began, of the length it had then, and
\* an id that had no session then has no stored language now (no session
\* created, no User message left appended).
C35_FailedCallsLeaveNoTrace ==
    \A t \in Tasks :
        (/\ tasks[t].pc = "done"
         /\ tasks[t].op \in {"start", "process"}
         /\ tasks[t].result.kind = "raise"
         /\ tasks[t].result.error # "CancelledError") =>
            LET id == tasks[t].session_id
            IN  /\ (id \in DOMAIN sessions) = tasks[t].pre.has_history
                /\ id \in DOMAIN sessions =>
                        Len(sessions[id]) = tasks[t].pre.length
                /\ ~tasks[t].pre.has_history => id \notin DOMAIN session_languages

\* the bot session of `id` in `bs` keeps the message_count and topic it has
\* in bot_sessions
KeepsCountAndTopic(bs, id) ==
    /\ id \in DOMAIN bs
    /\ bs[id].message_count = bot_sessions[id].message_count
    /\ bs[id].topic = bot_sessions[id].topic

\* C36: in the prototype the stored message_count of a session is 1 right
\* after a start_conversation that answered, grows by exactly 1 with each
\* send_message that answered, and a send_message that is rejected (empty
\* message, no session id) or fails with an exception leaves the stored
\* message_count and topic of the session as they were.
C36_CountFollowsRequests ==
    [][LET id == flask_reply'.session_id
           route == flask_reply'.route
           status == flask_reply'.status
       IN  /\ (route = "start_conversation" /\ status = 200) =>
                  bot_sessions'[id].message_count = 1
           /\ (route = "send_message" /\ status = 200) =>
                  bot_sessions'[id].message_count =
                      (IF id \in DOMAIN bot_sessions
                       THEN bot_sessions[id].message_count ELSE 0) + 1
           /\ (route = "send_message" /\ status # 200 /\ id \in DOMAIN bot_sessions) =>
                  KeepsCountAndTopic(bot_sessions', id)
      ]_vars

\* C37: in the prototype a reset on a session id that has a bot session
\* replaces it with a fresh one (new bots, message_count 0, topic "Political
\* ideologies and perspectives") and answers success; a reset on an id with
\* no bot session answers an error and creates no bot session.
C37_ResetReplacesOrRefuses ==
    [][flask_reply'.route = "reset" =>
          LET id == flask_reply'.session_id
          IN  IF id \in DOMAIN bot_sessions
              THEN /\ flask_reply'.status = 200
                   /\ DOMAIN bot_sessions' = DOMAIN bot_sessions
                   /\ bot_sessions'[id].message_count = 0
                   /\ bot_sessions'[id].topic = <<"Political ideologies and perspectives">>
                   /\ bot_sessions'[id].bots = InitializeBots
              ELSE /\ flask_reply'.status = 400
                   /\ bot_sessions' = bot_sessions
      ]_vars

\* a reset has just replaced a bot session that had counted messages
C37_Witness ==
    /\ flask_reply.route = "reset"
    /\ flask_reply.status = 200
    /\ flask_reply.stored_before >= 2
    /\ bot_sessions[flask_reply.session_id] = FreshBotSession

\* a flag of app_state, False while the key is not set
Flag(key) == IF key \in DOMAIN app_state THEN app_state[key] ELSE FALSE

C38_Flags ==
    /\ Flag("ready") => (Flag("healthy") /\ ~Flag("shutting_down"))
    /\ Flag("shutting_down") => (~Flag("ready") /\ ~Flag("healthy"))

C38_Step ==
    /\ Flag("shutting_down") =>
          /\ "ready" \in DOMAIN app_state' /\ ~app_state'["ready"]
          /\ "healthy" \in DOMAIN app_state' /\ ~app_state'["healthy"]
          /\ "shutting_down" \in DOMAIN app_state' /\ app_state'["shutting_down"]
    /\ ReadinessCheck => ((probe'.status_code = 200) <=> Flag("ready"))

\* C38: in app_state `ready` is true only while `healthy` is true and
\* `shutting_down` is false; once shutdown has begun `ready` and `healthy`
\* stay false and `shutting_down` stays true; and /ready answers 200 exactly
\* when `ready` is true.
C38_ReadyOnlyWhileServing == [](C38_Flags) /\ [][C38_Step]_vars

\* /ready was asked after the shutdown and answered 503
C38_Witness ==
    /\ lifespan_at = "stopped"
    /\ Flag("shutting_down")
    /\ probe.route = "ready"
    /\ probe.lifespan_at = "stopped"
    /\ probe.status_code = 503

====
